---- MODULE Spec2Model ----
(***************************************************************************)
(* A model of src/utils.py: the clause splicing, renumbering and sentence  *)
(* insertion operations on a rich-text document.                           *)
(*                                                                         *)
(* A text is a sequence of characters, a character a one-token string.     *)
(* A document is a sequence of paragraphs, a paragraph a record of runs    *)
(* and paragraph properties, a run a record of text and character          *)
(* attributes.  A tri-state attribute (bold, italic, underline) is one of  *)
(* "None", "True", "False", as python-docx exposes it.                     *)
(***************************************************************************)
EXTENDS Integers, Sequences, FiniteSets, TLC

VARIABLES doc, prev, last, nextId, steps

vars == <<doc, prev, last, nextId, steps>>

-----------------------------------------------------------------------------
(* Characters *)

SP == " "
TAB == "tab"
DOT == "."
DQ == "dq"      \* the straight double quote U+0022
LDQ == "ldq"    \* the curly opening quote U+201C
RDQ == "rdq"    \* the curly closing quote U+201D

Whitespace == {SP, TAB}
Digits == {"0", "1", "2", "3", "4", "5", "6", "7", "8", "9"}
Upper == {"A", "B", "C", "D", "H", "X"}
SentenceEnd == {".", "!", "?"}
QUOTES == {DQ, LDQ, RDQ, "u201e", "u201f", "u2033", "u2036"}

IsSpace(c) == c \in Whitespace
IsDigit(c) == c \in Digits

LowerChar(c) ==
  CASE c = "A" -> "a" [] c = "B" -> "b" [] c = "C" -> "c" [] c = "D" -> "d"
    [] c = "H" -> "h" [] c = "X" -> "x" [] OTHER -> c

-----------------------------------------------------------------------------
(* str methods and the regular expressions of the source *)

RECURSIVE LStrip(_)
LStrip(s) == IF s # <<>> /\ IsSpace(Head(s)) THEN LStrip(Tail(s)) ELSE s

RECURSIVE RStrip(_)
RStrip(s) ==
  IF s # <<>> /\ IsSpace(s[Len(s)]) THEN RStrip(SubSeq(s, 1, Len(s) - 1)) ELSE s

Strip(s) == RStrip(LStrip(s))

Lower(s) == [i \in 1..Len(s) |-> LowerChar(s[i])]

StartsWith(s, p) == Len(p) <= Len(s) /\ SubSeq(s, 1, Len(p)) = p

EndsWith(s, p) == Len(p) <= Len(s) /\ SubSeq(s, Len(s) - Len(p) + 1, Len(s)) = p

From(s, i) == SubSeq(s, i, Len(s))

RECURSIVE LeadingDigits(_)
LeadingDigits(s) ==
  IF s # <<>> /\ IsDigit(Head(s)) THEN 1 + LeadingDigits(Tail(s)) ELSE 0

RECURSIVE LeadingSpaces(_)
LeadingSpaces(s) ==
  IF s # <<>> /\ IsSpace(Head(s)) THEN 1 + LeadingSpaces(Tail(s)) ELSE 0

\* s.find(c) for a one-character c: the first 1-based position, 0 when absent
RECURSIVE FindChar(_, _, _)
FindChar(s, c, i) ==
  IF i > Len(s) THEN 0 ELSE IF s[i] = c THEN i ELSE FindChar(s, c, i + 1)

\* s.rfind('.'): the last 1-based position, 0 when absent
RECURSIVE RFindChar(_, _, _)
RFindChar(s, c, i) ==
  IF i < 1 THEN 0 ELSE IF s[i] = c THEN i ELSE RFindChar(s, c, i - 1)

\* s.find('. '): the first 1-based position of the two characters, 0 when absent
RECURSIVE FindDotSpace(_, _)
FindDotSpace(s, i) ==
  IF i + 1 > Len(s) THEN 0
  ELSE IF s[i] = DOT /\ s[i + 1] = SP THEN i
  ELSE FindDotSpace(s, i + 1)

\* f"{n}": the decimal digits of a natural number
DigitChar(d) == CASE d = 0 -> "0" [] d = 1 -> "1" [] d = 2 -> "2" [] d = 3 -> "3"
    [] d = 4 -> "4" [] d = 5 -> "5" [] d = 6 -> "6" [] d = 7 -> "7"
    [] d = 8 -> "8" [] OTHER -> "9"

RECURSIVE ToStr(_)
ToStr(n) == IF n < 10 THEN <<DigitChar(n)>> ELSE ToStr(n \div 10) \o <<DigitChar(n % 10)>>

\* As clause_heading_pattern, the match ending at the period: the whitespace
\* after it is left out of the span (the pattern written without \s+)
PatternWithoutSpaces(s) ==
  LET d == LeadingDigits(s)
      k == IF d > 0 THEN d
           ELSE IF StartsWith(s, <<"X", "X", "X">>) THEN 3 ELSE 0
  IN IF k = 0 \/ Len(s) < k + 2 THEN 0
     ELSE IF s[k + 1] # DOT \/ ~IsSpace(s[k + 2]) THEN 0
     ELSE k + 1

\* The end offset of the match of ^(\d+|XXX)\.\s+ at the start of s (the match
\* starts at offset 0); 0 when the pattern does not match.
clause_heading_pattern(s) ==
  LET d == LeadingDigits(s)
      k == IF d > 0 THEN d
           ELSE IF StartsWith(s, <<"X", "X", "X">>) THEN 3 ELSE 0
  IN IF k = 0 \/ Len(s) < k + 2 THEN 0
     ELSE IF s[k + 1] # DOT \/ ~IsSpace(s[k + 2]) THEN 0
     ELSE k + 1 + LeadingSpaces(From(s, k + 2))

-----------------------------------------------------------------------------
(* Runs, paragraphs, documents *)

NoFont == [name |-> "None", size |-> "None", color |-> "None", all_caps |-> "None"]

\* paragraph.add_run(text): a run with no attribute set
add_run(text) ==
  [text |-> text, bold |-> "None", italic |-> "None", underline |-> "None",
   font |-> NoFont, rstyle |-> "Default"]

NoFormat == [alignment |-> "None", left_indent |-> "None",
             right_indent |-> "None", first_line_indent |-> "None"]

\* A fresh <w:p>: no runs, no paragraph properties, the default style
NewParagraph(id) ==
  [id |-> id, runs |-> <<>>, numPr |-> <<>>, style |-> "Normal", fmt |-> NoFormat]

RECURSIVE ConcatRuns(_)
ConcatRuns(runs) ==
  IF runs = <<>> THEN <<>> ELSE Head(runs).text \o ConcatRuns(Tail(runs))

\* paragraph.text
ParaText(p) == ConcatRuns(p.runs)

Truthy(a) == a = "True"

AnyBold(p) == \E i \in 1..Len(p.runs) : Truthy(p.runs[i].bold)
AnyUnderline(p) == \E i \in 1..Len(p.runs) : Truthy(p.runs[i].underline)

InsertAt(d, i, p) == SubSeq(d, 1, i - 1) \o <<p>> \o SubSeq(d, i, Len(d))

IndexOfId(d, id) ==
  IF \E i \in 1..Len(d) : d[i].id = id
  THEN CHOOSE i \in 1..Len(d) : d[i].id = id
  ELSE 0

-----------------------------------------------------------------------------
(* Style inference *)

HeadingMaxLen == 60

Contains(s, c) == \E i \in 1..Len(s) : s[i] = c

has_quotes(text) ==
  LET t == Strip(text)
  IN \/ StartsWith(t, <<DQ>>) /\ Contains(Tail(t), DQ)
     \/ StartsWith(t, <<LDQ>>) /\ Contains(Tail(t), RDQ)

\* len(text.split()): the number of maximal runs of non-whitespace characters
RECURSIVE WordCount(_)
WordCount(s) ==
  IF s = <<>> THEN 0
  ELSE IF IsSpace(Head(s)) THEN WordCount(Tail(s))
  ELSE IF Len(s) = 1 \/ IsSpace(s[2]) THEN 1 + WordCount(Tail(s))
  ELSE WordCount(Tail(s))

MainHeadingMaxWords == 10

is_main_heading(para) ==
  LET text == Strip(ParaText(para))
  IN /\ EndsWith(text, <<DOT>>)
     /\ WordCount(text) < MainHeadingMaxWords
     /\ ~StartsWith(text, <<DQ>>)

\* Indices are 1-based in the model: the source's index k is the model's k + 1,
\* and the source's None is 0.
RECURSIVE ScanMainHeading(_, _)
ScanMainHeading(d, i) ==
  IF i > Len(d) THEN 0
  ELSE IF is_main_heading(d[i]) THEN i
  ELSE ScanMainHeading(d, i + 1)

find_next_main_heading_index(d, start_index) == ScanMainHeading(d, start_index + 1)

DefaultStyle == [bold |-> TRUE, underline |-> FALSE, quotes |-> FALSE]

\* the loop of detect_clause_heading_style over the 1-based range i..hi
RECURSIVE ScanStyle(_, _, _)
ScanStyle(d, i, hi) ==
  IF i > hi THEN DefaultStyle
  ELSE LET para == d[i]
           text == Strip(ParaText(para))
           bold == AnyBold(para)
           underline == AnyUnderline(para)
           quotes == has_quotes(text)
       IN IF text = <<>> THEN ScanStyle(d, i + 1, hi)
          ELSE IF para.runs # <<>> /\ Len(text) < HeadingMaxLen
                  /\ (bold \/ underline \/ quotes)
          THEN [bold |-> bold, underline |-> underline, quotes |-> quotes]
          ELSE ScanStyle(d, i + 1, hi)

\* section_heading_index = 0 stands for the source's None (the whole document)
\* A scan that runs past the next main heading to the end of the document
DetectStyleToDocumentEnd(d, section_heading_index) ==
  ScanStyle(d, section_heading_index + 1, Len(d))

detect_clause_heading_style(d, section_heading_index) ==
  IF section_heading_index # 0
  THEN LET next_section_index == find_next_main_heading_index(d, section_heading_index)
           end_index == IF next_section_index = 0 THEN Len(d) + 1
                        ELSE next_section_index
       IN ScanStyle(d, section_heading_index + 1, end_index - 1)
  ELSE ScanStyle(d, 1, Len(d))

-----------------------------------------------------------------------------
(* Clause renumberer *)

Max(a, b) == IF a > b THEN a ELSE b
Min(a, b) == IF a < b THEN a ELSE b

\* The loop over para.runs: the first run that overlaps the matched span gets
\* the span's part of its text replaced by "<n>. "; the loop then breaks.
RECURSIVE RenumberRuns(_, _, _, _)
RenumberRuns(runs, chars_seen, end, clause_number) ==
  IF runs = <<>> THEN <<>>
  ELSE LET run == Head(runs)
           run_len == Len(run.text)
       IN IF chars_seen < end /\ chars_seen + run_len > 0
          THEN LET rel_start == Max(0, 0 - chars_seen)
                   rel_end == Min(run_len, end - chars_seen)
               IN <<[run EXCEPT !.text = SubSeq(run.text, 1, rel_start)
                                         \o ToStr(clause_number) \o <<DOT, SP>>
                                         \o From(run.text, rel_end + 1)]>>
                  \o Tail(runs)
          ELSE <<run>> \o RenumberRuns(Tail(runs), chars_seen + run_len, end,
                                        clause_number)

\* Whether the outer match (on the stripped text) counts the paragraph
IsNumberedClause(para) == clause_heading_pattern(Strip(ParaText(para))) > 0

RenumberPara(para, clause_number) ==
  LET total == ConcatRuns(para.runs)
      end == clause_heading_pattern(total)
  IN IF end > 0
     THEN [para EXCEPT !.runs = RenumberRuns(para.runs, 0, end, clause_number)]
     ELSE para

RECURSIVE RenumberFrom(_, _, _)
RenumberFrom(d, i, clause_number) ==
  IF i > Len(d) THEN d
  ELSE IF IsNumberedClause(d[i])
  THEN RenumberFrom([d EXCEPT ![i] = RenumberPara(d[i], clause_number)], i + 1,
                    clause_number + 1)
  ELSE RenumberFrom(d, i + 1, clause_number)

renumber_clauses_preserve_formatting(d) == RenumberFrom(d, 1, 1)

-----------------------------------------------------------------------------
(* Run composer *)

copy_font(dst_run, src, bold, italic, underline) ==
  LET f0 == dst_run.font
      f1 == IF src # <<>> /\ src[1].font.name # "None"
            THEN [f0 EXCEPT !.name = src[1].font.name] ELSE f0
      f2 == IF src # <<>> /\ src[1].font.size # "None"
            THEN [f1 EXCEPT !.size = src[1].font.size] ELSE f1
      f3 == IF src # <<>> /\ src[1].font.color # "None"
            THEN [f2 EXCEPT !.color = src[1].font.color] ELSE f2
  IN [dst_run EXCEPT !.font = f3, !.bold = bold, !.italic = italic,
                     !.underline = underline]

Tri(b) == IF b THEN "True" ELSE "False"

\* src is <<>> for the source's None and <<run>> otherwise; the style_info of
\* detect_clause_heading_style has no "italic" key, so its default False is used
add_heading_runs(number_part, heading_part, period_part, src, style_info) ==
  LET number_run == copy_font(add_run(number_part), src, "True", "False", "False")
      heading_run ==
        copy_font(add_run(heading_part), src,
          IF src # <<>> /\ src[1].bold # "None" THEN src[1].bold
          ELSE Tri(style_info.bold),
          IF src # <<>> /\ src[1].italic # "None" THEN src[1].italic
          ELSE "False",
          IF src # <<>> /\ src[1].underline # "None" THEN src[1].underline
          ELSE Tri(style_info.underline))
      period_run == copy_font(add_run(period_part), src, "False", "False", "False")
  IN <<number_run, heading_run, period_run>>

FirstRun(para) == IF para.runs = <<>> THEN <<>> ELSE <<para.runs[1]>>

\* alignment is copied always, each indent only when the reference has one
CopyFormat(new_para, ref_para) ==
  [new_para EXCEPT
     !.fmt = [alignment |-> ref_para.fmt.alignment,
              left_indent |-> IF ref_para.fmt.left_indent # "None"
                              THEN ref_para.fmt.left_indent
                              ELSE new_para.fmt.left_indent,
              right_indent |-> IF ref_para.fmt.right_indent # "None"
                               THEN ref_para.fmt.right_indent
                               ELSE new_para.fmt.right_indent,
              first_line_indent |-> IF ref_para.fmt.first_line_indent # "None"
                                    THEN ref_para.fmt.first_line_indent
                                    ELSE new_para.fmt.first_line_indent]]


-----------------------------------------------------------------------------
(* Anchor matching of the single-paragraph clause operations *)

\* re.sub(r'^\d+\.\s*', '', text.strip()).lower()
normalize_heading(text) ==
  LET s == Strip(text)
      d == LeadingDigits(s)
  IN IF d > 0 /\ Len(s) > d /\ s[d + 1] = DOT
     THEN Lower(LStrip(From(s, d + 2)))
     ELSE Lower(s)

\* re.match(r'^(\d+\.\s*[^.]+\.)', text.strip()): digits, a period, then a
\* non-empty stretch without a period, then a period; else the stripped text
extract_clause_heading(text) ==
  LET s == Strip(text)
      d == LeadingDigits(s)
      rest == From(s, d + 2)
      p == FindChar(rest, DOT, 1)
  IN IF d > 0 /\ Len(s) > d /\ s[d + 1] = DOT /\ p >= 2
     THEN SubSeq(s, 1, d + 1 + p)
     ELSE s

RECURSIVE ScanClause(_, _, _)
ScanClause(d, norm_target, i) ==
  IF i > Len(d) THEN 0
  ELSE IF normalize_heading(extract_clause_heading(ParaText(d[i]))) = norm_target
  THEN i
  ELSE ScanClause(d, norm_target, i + 1)

\* The 1-based index of the first paragraph matching the heading, 0 when none
FindClauseAnchor(d, clause_heading) ==
  ScanClause(d, normalize_heading(clause_heading), 1)

\* The body run of both operations: font copied from src, attributes cleared
BodyRun(new_clause_body, src) ==
  copy_font(add_run(new_clause_body), src, "False", "False", "False")

-----------------------------------------------------------------------------
(* insert_styled_clause_after_clause *)

AfterSplit(new_clause_heading) ==
  LET full_heading == <<"X", "X", "X", DOT, SP>> \o new_clause_heading \o <<DOT>>
      first_dot_space == FindDotSpace(full_heading, 1)
      last_dot == RFindChar(full_heading, DOT, Len(full_heading))
  IN IF first_dot_space # 0 /\ last_dot # 0 /\ last_dot > first_dot_space
     THEN [number_part |-> SubSeq(full_heading, 1, first_dot_space + 1),
           heading_part |-> SubSeq(full_heading, first_dot_space + 2, last_dot - 1),
           period_part |-> <<full_heading[last_dot], SP>>]
     ELSE [number_part |-> <<>>, heading_part |-> Strip(full_heading),
           period_part |-> <<SP>>]

\* The document after the operation, the anchor being at after_index; blank_id
\* and new_id are the identities of the two paragraphs it creates.
InsertClauseAfter(d, after_index, new_clause_heading, new_clause_body, blank_id, new_id) ==
  LET after_para == d[after_index]
      d1 == InsertAt(d, after_index + 1, NewParagraph(blank_id))
      d2 == InsertAt(d1, after_index + 2, NewParagraph(new_id))
      parts == AfterSplit(new_clause_heading)
      style_info == detect_clause_heading_style(d2, 0)
      src_run == FirstRun(after_para)
      runs == add_heading_runs(parts.number_part, parts.heading_part,
                               parts.period_part, src_run, style_info)
              \o <<BodyRun(new_clause_body, src_run)>>
      new_para == CopyFormat([d2[after_index + 2] EXCEPT !.runs = runs], after_para)
  IN renumber_clauses_preserve_formatting([d2 EXCEPT ![after_index + 2] = new_para])

-----------------------------------------------------------------------------
(* insert_styled_clause_before_clause *)

BeforeSplit(before_text) ==
  LET first_dot_space == FindDotSpace(before_text, 1)
      last_dot == RFindChar(before_text, DOT, Len(before_text))
  IN IF first_dot_space # 0 /\ last_dot # 0 /\ last_dot > first_dot_space
     THEN [number_part |-> SubSeq(before_text, 1, first_dot_space + 1),
           period_part |-> <<before_text[last_dot], SP>>]
     ELSE [number_part |-> <<"X", "X", "X", DOT, SP>>, period_part |-> <<DOT, SP>>]

InsertClauseBefore(d, before_index, new_clause_heading, new_clause_body, blank_id, new_id) ==
  LET before_para == d[before_index]
      d1 == InsertAt(d, before_index, NewParagraph(blank_id))
      d2 == InsertAt(d1, before_index + 1, NewParagraph(new_id))
      parts == BeforeSplit(Strip(ParaText(before_para)))
      style_info == detect_clause_heading_style(d2, 0)
      src_run == FirstRun(before_para)
      runs == add_heading_runs(parts.number_part, new_clause_heading,
                               parts.period_part, src_run, style_info)
              \o <<BodyRun(new_clause_body, src_run)>>
      new_para == CopyFormat([d2[before_index + 1] EXCEPT !.runs = runs], before_para)
  IN renumber_clauses_preserve_formatting([d2 EXCEPT ![before_index + 1] = new_para])

-----------------------------------------------------------------------------
(* The record of the last call: the operation, its arguments, how it ended  *)
(* ("ok", "AnchorNotFound" for the ValueError of anchor resolution, "Raised" *)
(* for any later exception) and the identities of the paragraphs involved.  *)

NoSectionStyle ==
  [use_quotes |-> FALSE, use_bold |-> FALSE, use_italic |-> FALSE,
   use_underline |-> FALSE]

NoCall ==
  [op |-> "none", result |-> "ok", anchor |-> <<>>, after_clause |-> <<>>,
   has_after |-> FALSE, heading |-> <<>>, body |-> <<>>, index |-> 0,
   sentences |-> <<>>, found |-> <<>>, style_info |-> DefaultStyle,
   section_style |-> NoSectionStyle, anchorId |-> 0, afterId |-> 0, newId |-> 0,
   blankId |-> 0, templateId |-> 0]

MaxOps == 2

MaxTextLen == 4

insert_styled_clause_after_clause(after_clause_heading, new_clause_heading, new_clause_body) ==
  LET after_index == FindClauseAnchor(doc, after_clause_heading)
      call == [NoCall EXCEPT !.op = "after", !.anchor = after_clause_heading,
                             !.heading = new_clause_heading,
                             !.body = new_clause_body]
  IN /\ steps < MaxOps
     /\ steps' = steps + 1
     /\ prev' = doc
     /\ IF after_index = 0
        THEN /\ last' = [call EXCEPT !.result = "AnchorNotFound"]
             /\ UNCHANGED <<doc, nextId>>
        ELSE /\ doc' = InsertClauseAfter(doc, after_index, new_clause_heading,
                                         new_clause_body, nextId, nextId + 1)
             /\ nextId' = nextId + 2
             /\ last' = [call EXCEPT !.anchorId = doc[after_index].id,
                                     !.blankId = nextId, !.newId = nextId + 1]

insert_styled_clause_before_clause(before_clause_heading, new_clause_heading, new_clause_body) ==
  LET before_index == FindClauseAnchor(doc, before_clause_heading)
      call == [NoCall EXCEPT !.op = "before", !.anchor = before_clause_heading,
                             !.heading = new_clause_heading,
                             !.body = new_clause_body]
  IN /\ steps < MaxOps
     /\ steps' = steps + 1
     /\ prev' = doc
     /\ IF before_index = 0
        THEN /\ last' = [call EXCEPT !.result = "AnchorNotFound"]
             /\ UNCHANGED <<doc, nextId>>
        ELSE /\ doc' = InsertClauseBefore(doc, before_index, new_clause_heading,
                                          new_clause_body, nextId, nextId + 1)
             /\ nextId' = nextId + 2
             /\ last' = [call EXCEPT !.anchorId = doc[before_index].id,
                                     !.blankId = nextId, !.newId = nextId + 1]

\* A direct call of renumber_clauses_preserve_formatting
Renumber ==
  /\ steps < MaxOps
  /\ steps' = steps + 1
  /\ prev' = doc
  /\ doc' = renumber_clauses_preserve_formatting(doc)
  /\ last' = [NoCall EXCEPT !.op = "renumber"]
  /\ UNCHANGED nextId

-----------------------------------------------------------------------------
(* Documents of explicitly numbered clauses, in the run layouts a word       *)
(* processor produces: the prefix in one run, split after the number, split  *)
(* after the period, behind an empty run, behind leading whitespace.         *)

Txt(number, letter) == ToStr(number) \o <<DOT, SP, letter, DOT, SP, "x">>

StyledRun(text) ==
  [add_run(text) EXCEPT !.bold = "True", !.font = [NoFont EXCEPT !.name = "Arial"]]

ClauseRuns(layout, number, letter) ==
  CASE layout = "single" -> <<StyledRun(Txt(number, letter))>>
    [] layout = "split_number" ->
         <<add_run(ToStr(number)), add_run(<<DOT, SP, letter, DOT, SP, "x">>)>>
    [] layout = "split_period" ->
         <<add_run(ToStr(number) \o <<DOT>>), add_run(<<SP, letter, DOT, SP, "x">>)>>
    [] layout = "empty_first" -> <<add_run(<<>>), add_run(Txt(number, letter))>>
    [] layout = "leading_space" -> <<add_run(<<SP>> \o Txt(number, letter))>>
    [] layout = "wrong_number" -> <<add_run(Txt(number + 4, letter))>>
    [] layout = "unnumbered" -> <<add_run(<<letter, DOT, SP, "x", DOT>>)>>
    [] OTHER -> <<>>

Justified == [NoFormat EXCEPT !.alignment = "justify", !.left_indent = "12pt"]

\* The paragraphs of the chosen layouts, "absent" ones dropped, identities in
\* document order, numbers consecutive over the paragraphs present
RECURSIVE ClauseDoc(_, _, _)
ClauseDoc(layouts, letters, n) ==
  IF layouts = <<>> THEN <<>>
  ELSE IF Head(layouts) = "absent" THEN ClauseDoc(Tail(layouts), Tail(letters), n)
  ELSE <<[NewParagraph(n) EXCEPT
            !.runs = ClauseRuns(Head(layouts), n, Head(letters)),
            !.fmt = IF Head(layouts) = "single" THEN Justified ELSE NoFormat]>>
       \o ClauseDoc(Tail(layouts), Tail(letters), n + 1)

ClauseDocs ==
  { ClauseDoc(<<l1, l2, l3>>, <<"A", "B", "C">>, 1) :
      l1 \in {"single", "split_number", "leading_space"},
      l2 \in {"single", "split_period", "leading_space", "wrong_number",
              "empty_first"},
      l3 \in {"single", "split_number", "unnumbered", "absent"} }

ClauseAnchors ==
  { <<"A", DOT>>, <<"2", DOT, SP, "B", DOT>>, <<"C", DOT, SP, "x", DOT>>, <<"z">> }

NewHeadings == { <<"H">> }

NewBodies == { <<"y">> }

InitClause ==
  /\ doc \in ClauseDocs
  /\ prev = doc
  /\ last = NoCall
  /\ nextId = Len(doc) + 1
  /\ steps = 0

NextClause ==
  \/ \E a \in ClauseAnchors, h \in NewHeadings, b \in NewBodies :
       insert_styled_clause_after_clause(a, h, b)
  \/ \E a \in ClauseAnchors, h \in NewHeadings, b \in NewBodies :
       insert_styled_clause_before_clause(a, h, b)
  \/ Renumber

SpecClause == InitClause /\ [][NextClause]_vars

-----------------------------------------------------------------------------
(* Reading a document: the numbered clauses and their numbers *)

DigitVal(c) == CHOOSE v \in 0..9 : DigitChar(v) = c

RECURSIVE ParseInt(_, _)
ParseInt(s, acc) ==
  IF s = <<>> THEN acc ELSE ParseInt(Tail(s), acc * 10 + DigitVal(Head(s)))

\* The text, read past leading whitespace, begins with digits, a period and a space
BeginsNumbered(text) ==
  LET s == LStrip(text)
      n == LeadingDigits(s)
  IN n > 0 /\ Len(s) >= n + 2 /\ s[n + 1] = DOT /\ s[n + 2] = SP

LeadingNumber(text) ==
  LET s == LStrip(text) IN ParseInt(SubSeq(s, 1, LeadingDigits(s)), 0)

\* The indices of the numbered clauses of d, in document order
RECURSIVE NumberedFrom(_, _)
NumberedFrom(d, i) ==
  IF i > Len(d) THEN <<>>
  ELSE IF BeginsNumbered(ParaText(d[i])) THEN <<i>> \o NumberedFrom(d, i + 1)
  ELSE NumberedFrom(d, i + 1)

NumberedIndices(d) == NumberedFrom(d, 1)

ClauseNumbers(d) ==
  LET idx == NumberedIndices(d)
  IN [k \in 1..Len(idx) |-> LeadingNumber(ParaText(d[idx[k]]))]

Sequential(d) == ClauseNumbers(d) = [k \in 1..Len(NumberedIndices(d)) |-> k]

Texts(d) == [i \in 1..Len(d) |-> ParaText(d[i])]

ClauseCallOk == last.op \in {"after", "before"} /\ last.result = "ok"

-----------------------------------------------------------------------------
(* C1: after insert_styled_clause_after_clause or                           *)
(* insert_styled_clause_before_clause returns normally, the numbered        *)
(* clauses of the document, read in document order, carry the numbers 1, 2, *)
(* 3, ... with no gap and no repeat, in every run layout, a paragraph with  *)
(* leading whitespace included.                                             *)
C1_SequentialAfterInsert == ClauseCallOk => Sequential(doc)

ParaOfId(d, id) == d[IndexOfId(d, id)]

NumberOfId(d, id) == LeadingNumber(ParaText(ParaOfId(d, id)))

\* The position of index i in the sequence of numbered clauses, 0 when absent
RankOf(d, i) ==
  LET idx == NumberedIndices(d)
  IN IF \E k \in 1..Len(idx) : idx[k] = i
     THEN CHOOSE k \in 1..Len(idx) : idx[k] = i
     ELSE 0

\* insert_styled_clause_after_clause returned, its anchor was a numbered clause
\* of a document numbered 1..N
AfterNumberedAnchor ==
  /\ last.op = "after" /\ last.result = "ok"
  /\ Sequential(prev)
  /\ BeginsNumbered(ParaText(ParaOfId(prev, last.anchorId)))

-----------------------------------------------------------------------------
(* C7: on a document whose clauses are numbered 1..N,                       *)
(* insert_styled_clause_after_clause with clause k as the anchor leaves     *)
(* clause k its number, makes the new clause the next numbered paragraph    *)
(* with number k+1 and the text "<k+1>. <heading>. <body>", and gives every *)
(* clause formerly numbered j > k the number j+1, the order unchanged.      *)
C7_InsertAfterShiftsNumbers ==
  AfterNumberedAnchor =>
    LET k == NumberOfId(prev, last.anchorId)
        a == IndexOfId(doc, last.anchorId)
        n == IndexOfId(doc, last.newId)
    IN /\ BeginsNumbered(ParaText(doc[a])) /\ LeadingNumber(ParaText(doc[a])) = k
       /\ RankOf(doc, n) = RankOf(doc, a) + 1
       /\ ParaText(doc[n]) = ToStr(k + 1) \o <<DOT, SP>> \o last.heading
                              \o <<DOT, SP>> \o last.body
       /\ \A i \in 1..Len(prev) :
            BeginsNumbered(ParaText(prev[i])) =>
              LET j == LeadingNumber(ParaText(prev[i]))
                  p == ParaOfId(doc, prev[i].id)
              IN /\ BeginsNumbered(ParaText(p))
                 /\ LeadingNumber(ParaText(p)) = IF j > k THEN j + 1 ELSE j
       /\ \A i, j \in 1..Len(prev) :
            i < j => IndexOfId(doc, prev[i].id) < IndexOfId(doc, prev[j].id)

-----------------------------------------------------------------------------
(* Documents for the renumberer alone: a first paragraph of every text up   *)
(* to MaxTextLen characters, cut into three runs at every pair of offsets,  *)
(* followed by a numbered paragraph whose number shows the count kept.      *)

RenumberChars == {"1", DOT, SP, "a"}

TextsUpTo(chars, n) == UNION { [1..k -> chars] : k \in 0..n }

LongTexts ==
  { <<"X", "X", "X", DOT, SP, "a">>, <<"1", "2", DOT, SP, "a">>,
    <<"1", DOT, TAB, "a">>, <<SP, "1", DOT, SP, "a">> }

ThreeRuns(text, c1, c2) ==
  <<add_run(SubSeq(text, 1, c1)), add_run(SubSeq(text, c1 + 1, c2)),
    add_run(SubSeq(text, c2 + 1, Len(text)))>>

Cuts(n) == { cc \in (0..n) \X (0..n) : cc[1] <= cc[2] }

RenumberDoc(t, c) ==
  <<[NewParagraph(1) EXCEPT !.runs = ThreeRuns(t, c[1], c[2])],
    [NewParagraph(2) EXCEPT !.runs = <<add_run(Txt(7, "B"))>>]>>

InitRenumber ==
  /\ \E t \in TextsUpTo(RenumberChars, MaxTextLen) \cup LongTexts :
       \E c \in Cuts(Len(t)) : doc = RenumberDoc(t, c)
  /\ prev = doc
  /\ last = NoCall
  /\ nextId = Len(doc) + 1
  /\ steps = 0

NextRenumber == Renumber

SpecRenumber == InitRenumber /\ [][NextRenumber]_vars

-----------------------------------------------------------------------------
(* C8: renumbering is idempotent: in every document, whatever the run       *)
(* layout of its numbered paragraphs, the text of every paragraph after two *)
(* consecutive calls of renumber_clauses_preserve_formatting equals its     *)
(* text after the first call.                                               *)
C8_RenumberIdempotent ==
  LET once == renumber_clauses_preserve_formatting(doc)
  IN Texts(renumber_clauses_preserve_formatting(once)) = Texts(once)

\* The second of two calls has returned on a paragraph whose prefix straddled
\* two runs: the first call rewrote the first run and left the period behind.
C8_Witness ==
  /\ steps = 2 /\ last.op = "renumber"
  /\ doc[1].runs[1].text = <<"1", DOT, SP>>
  /\ doc[1].runs[2].text = <<DOT, SP>>
  /\ Texts(doc) = Texts(prev)

-----------------------------------------------------------------------------
(* Heading locator *)

RECURSIVE StripLeadingQuotes(_)
StripLeadingQuotes(t) ==
  IF t # <<>> /\ Head(t) \in QUOTES THEN StripLeadingQuotes(Tail(t)) ELSE t

RECURSIVE StripTrailingQuotes(_)
StripTrailingQuotes(t) ==
  IF t # <<>> /\ t[Len(t)] \in QUOTES
  THEN StripTrailingQuotes(SubSeq(t, 1, Len(t) - 1))
  ELSE t

\* A normalization that keeps the quotes
NormalizeKeepingQuotes(text) == Lower(Strip(text))

\* normalize of find_clause_index_by_heading (case_insensitive and
\* ignore_quotes at their defaults) and of the after_clause search
normalize(text) == Lower(StripTrailingQuotes(StripLeadingQuotes(Strip(text))))

RECURSIVE ScanHeading(_, _, _)
ScanHeading(d, target, i) ==
  IF i > Len(d) THEN 0
  ELSE IF normalize(ParaText(d[i])) = target THEN i
  ELSE ScanHeading(d, target, i + 1)

find_clause_index_by_heading(d, heading) == ScanHeading(d, normalize(heading), 1)

\* The heading test written out in find_next_heading_index and in the
\* after_clause search: both quote comparisons use the straight quote
StraightQuoted(text) == StartsWith(text, <<DQ>>) /\ EndsWith(text, <<DQ>>)

InlineIsHeading(para, text, style_info) ==
  IF style_info.quotes /\ StraightQuoted(text) THEN TRUE
  ELSE IF style_info.bold /\ AnyBold(para)
  THEN IF style_info.underline THEN AnyUnderline(para) ELSE TRUE
  ELSE FALSE

RECURSIVE ScanNextHeading(_, _, _)
ScanNextHeading(d, i, style_info) ==
  IF i > Len(d) THEN 0
  ELSE LET text == Strip(ParaText(d[i]))
       IN IF text = <<>> THEN ScanNextHeading(d, i + 1, style_info)
          ELSE IF InlineIsHeading(d[i], text, style_info) THEN i
          ELSE ScanNextHeading(d, i + 1, style_info)

find_next_heading_index(d, start_index, style_info) ==
  ScanNextHeading(d, start_index + 1, style_info)

\* A pair <<open, close>>, or <<>> for the source's (None, None)
detect_quote_style(text, default_to_curly) ==
  IF StraightQuoted(Strip(text)) THEN <<DQ, DQ>>
  ELSE IF default_to_curly THEN <<LDQ, RDQ>>
  ELSE <<>>

RECURSIVE ScanQuotes(_, _)
ScanQuotes(d, i) ==
  IF i > Len(d) THEN <<>>
  ELSE LET q == detect_quote_style(Strip(ParaText(d[i])), TRUE)
       IN IF q # <<>> THEN q ELSE ScanQuotes(d, i + 1)

find_first_heading_with_quotes(d, start_index) == ScanQuotes(d, start_index + 1)

\* The after_clause search of insert_styled_numbered_clause_after_heading:
\* the first heading paragraph after index whose normalized text starts with
\* the normalized after_clause; 0 when the loop ends without a break
RECURSIVE ScanAfterClause(_, _, _, _)
ScanAfterClause(d, i, norm_target, style_info) ==
  IF i > Len(d) THEN 0
  ELSE LET text == Strip(ParaText(d[i]))
       IN IF InlineIsHeading(d[i], text, style_info)
             /\ StartsWith(normalize(text), norm_target)
          THEN i
          ELSE ScanAfterClause(d, i + 1, norm_target, style_info)

-----------------------------------------------------------------------------
(* Section style by majority vote *)

is_clause_heading(para, style_info) ==
  LET text == Strip(ParaText(para))
  IN IF text = <<>> THEN FALSE
     ELSE IF style_info.quotes /\ has_quotes(text) THEN TRUE
     ELSE IF style_info.bold /\ AnyBold(para)
     THEN IF style_info.underline THEN AnyUnderline(para) ELSE TRUE
     ELSE FALSE

\* The paragraph and character styles of the model and their base styles:
\* "Emphasis" is italic, "Quote" is based on "Emphasis"
StyleFontItalic(style) == style = "Emphasis"

BaseStyle(style) == IF style = "Quote" THEN "Emphasis" ELSE "None"

StyleChainItalic(style) ==
  StyleFontItalic(style) \/ StyleFontItalic(BaseStyle(style))

\* has_italic: a run italic or of an italic character style, else the
\* paragraph style chain, else any <w:i> element, which a run whose italic
\* is set (True or False) carries
HasItalic(para) ==
  \/ \E i \in 1..Len(para.runs) :
       para.runs[i].italic = "True" \/ StyleFontItalic(para.runs[i].rstyle)
  \/ StyleChainItalic(para.style)
  \/ \E i \in 1..Len(para.runs) : para.runs[i].italic # "None"

SectionEnd(d, section_heading_index) ==
  LET next_section_index == find_next_main_heading_index(d, section_heading_index)
  IN IF next_section_index = 0 THEN Len(d) + 1 ELSE next_section_index

\* The indices the loop classifies as clause headings
SectionHeadings(d, section_heading_index, style_info) ==
  { i \in (section_heading_index + 1)..(SectionEnd(d, section_heading_index) - 1) :
      is_clause_heading(d[i], style_info) }

\* A vote in which a tie counts as a majority
SectionStyleTiesWin(d, section_heading_index, style_info) ==
  LET hs == SectionHeadings(d, section_heading_index, style_info)
      total == Cardinality(hs)
      Wins(with) == total > 0 /\ 2 * Cardinality(with) >= total
  IN [use_quotes |-> Wins({ i \in hs : has_quotes(Strip(ParaText(d[i]))) }),
      use_bold |-> Wins({ i \in hs : AnyBold(d[i]) }),
      use_italic |-> Wins({ i \in hs : HasItalic(d[i]) }),
      use_underline |-> Wins({ i \in hs : AnyUnderline(d[i]) })]

section_clause_headings_style(d, section_heading_index, style_info) ==
  LET hs == SectionHeadings(d, section_heading_index, style_info)
      total == Cardinality(hs)
      quote_count == Cardinality({ i \in hs : has_quotes(Strip(ParaText(d[i]))) })
      bold_count == Cardinality({ i \in hs : AnyBold(d[i]) })
      italic_count == Cardinality({ i \in hs : HasItalic(d[i]) })
      underline_count == Cardinality({ i \in hs : AnyUnderline(d[i]) })
  IN IF total = 0
     THEN [use_quotes |-> style_info.quotes, use_bold |-> style_info.bold,
           use_italic |-> FALSE, use_underline |-> style_info.underline]
     ELSE [use_quotes |-> quote_count > (total \div 2),
           use_bold |-> bold_count > (total \div 2),
           use_italic |-> italic_count > (total \div 2),
           use_underline |-> underline_count > (total \div 2)]

-----------------------------------------------------------------------------
(* Numbering bridge.  A paragraph's numPr is the sequence of its <w:numPr>  *)
(* elements; each holds the value of its <w:numId> and <w:ilvl> children,   *)
(* "None" for a child that is absent.                                       *)

\* get_numbering_props raises (AttributeError on None) when the first numPr
\* lacks a child
NumberingRaises(para) ==
  para.numPr # <<>> /\ (para.numPr[1].numId = "None" \/ para.numPr[1].ilvl = "None")

\* (numId, ilvl), ("None", "None") for a paragraph of no list
get_numbering_props(para) ==
  IF para.numPr = <<>> THEN [numId |-> "None", ilvl |-> "None"]
  ELSE [numId |-> para.numPr[1].numId, ilvl |-> para.numPr[1].ilvl]

\* As insert_before_with_numbering, the copied numPr reset to the top level
InsertBeforeAtTopLevel(source_para, id) ==
  [NewParagraph(id) EXCEPT
     !.style = source_para.style,
     !.numPr = IF source_para.numPr = <<>> THEN <<>>
               ELSE <<[source_para.numPr[1] EXCEPT !.ilvl = "0"]>>]

\* The new paragraph of insert_before_with_numbering: the style of the source
\* and a deep copy of its first numPr
insert_before_with_numbering(source_para, id) ==
  [NewParagraph(id) EXCEPT
     !.style = source_para.style,
     !.numPr = IF source_para.numPr = <<>> THEN <<>> ELSE <<source_para.numPr[1]>>]

apply_numbering_from_template(new_para, template_para) ==
  LET props == get_numbering_props(template_para)
  IN IF props.numId # "None" /\ props.ilvl # "None"
     THEN [new_para EXCEPT !.numPr = Append(new_para.numPr, props)]
     ELSE new_para

-----------------------------------------------------------------------------
(* insert_styled_numbered_clause_after_heading *)

\* The template: the next heading after the insertion point, else the last
\* paragraph of the document
TemplateIndex(d, insert_after_index, style_info) ==
  LET next_heading_index == find_next_heading_index(d, insert_after_index, style_info)
  IN IF next_heading_index # 0 THEN next_heading_index ELSE Len(d)

QuotePair(d, template_para, insert_after_index) ==
  LET q1 == detect_quote_style(Strip(ParaText(template_para)), TRUE)
      q2 == IF q1 = <<>> THEN find_first_heading_with_quotes(d, insert_after_index)
            ELSE q1
  IN IF q2 = <<>> THEN detect_quote_style(<<>>, TRUE) ELSE q2

HeadingRun(heading_text, section_style) ==
  [add_run(heading_text) EXCEPT !.bold = Tri(section_style.use_bold),
                                !.italic = Tri(section_style.use_italic),
                                !.underline = Tri(section_style.use_underline)]

\* As NumberedRuns, the body left out of the heading paragraph
HeadingRunsOnly(section_style, quotes, heading_text, definition_text) ==
  IF section_style.use_quotes /\ quotes # <<>>
  THEN <<add_run(<<quotes[1]>>), HeadingRun(heading_text, section_style),
         add_run(<<quotes[2]>>)>>
  ELSE <<HeadingRun(heading_text, section_style)>>

\* Runs in which the closing quote is forgotten
NumberedRunsOpenQuoteOnly(section_style, quotes, heading_text, definition_text) ==
  (IF section_style.use_quotes /\ quotes # <<>>
   THEN <<add_run(<<quotes[1]>>), HeadingRun(heading_text, section_style)>>
   ELSE <<HeadingRun(heading_text, section_style)>>)
  \o <<add_run(<<SP>> \o definition_text)>>

NumberedRuns(section_style, quotes, heading_text, definition_text) ==
  (IF section_style.use_quotes /\ quotes # <<>>
   THEN <<add_run(<<quotes[1]>>), HeadingRun(heading_text, section_style),
          add_run(<<quotes[2]>>)>>
   ELSE <<HeadingRun(heading_text, section_style)>>)
  \o <<add_run(<<SP>> \o definition_text)>>

\* The new paragraph with its runs, before numbering is applied
NumberedParagraph(d, index, insert_after_index, style_info, heading_text, definition_text, new_id) ==
  LET section_style == section_clause_headings_style(d, index, style_info)
      template_para == d[TemplateIndex(d, insert_after_index, style_info)]
      quotes == QuotePair(d, template_para, insert_after_index)
  IN [insert_before_with_numbering(template_para, new_id) EXCEPT
        !.runs = NumberedRuns(section_style, quotes, heading_text, definition_text)]

\* has_after tells whether after_clause is given (FALSE: the source's None).
\* The values the source computes once are bound once.
insert_styled_numbered_clause_after_heading(after_heading, heading_text, definition_text, has_after, after_clause) ==
  LET call == [NoCall EXCEPT !.op = "numbered", !.anchor = after_heading,
                             !.heading = heading_text, !.body = definition_text,
                             !.has_after = has_after, !.after_clause = after_clause]
  IN /\ steps < MaxOps
     /\ steps' = steps + 1
     /\ prev' = doc
     /\ \E index \in {find_clause_index_by_heading(doc, after_heading)} :
        \E style_info \in {detect_clause_heading_style(doc, index)} :
        \E insert_after_index \in
             {IF index = 0 THEN 0
              ELSE IF has_after
              THEN ScanAfterClause(doc, index + 1, normalize(after_clause), style_info)
              ELSE index} :
          IF index = 0 \/ insert_after_index = 0
          THEN /\ last' = [call EXCEPT !.result = "AnchorNotFound"]
               /\ UNCHANGED <<doc, nextId>>
          ELSE \E t \in {TemplateIndex(doc, insert_after_index, style_info)} :
               \E new_para \in {NumberedParagraph(doc, index, insert_after_index,
                                  style_info, heading_text, definition_text, nextId)} :
                 LET done == [call EXCEPT !.anchorId = doc[index].id,
                                          !.afterId = doc[insert_after_index].id,
                                          !.templateId = doc[t].id,
                                          !.newId = nextId]
                 IN /\ nextId' = nextId + 1
                    /\ IF NumberingRaises(doc[t])
                       THEN /\ doc' = InsertAt(doc, t, new_para)
                            /\ last' = [done EXCEPT !.result = "Raised"]
                       ELSE /\ doc' = InsertAt(doc, t,
                                        apply_numbering_from_template(new_para, doc[t]))
                            /\ last' = done

-----------------------------------------------------------------------------
(* Documents of sections: a section heading "D.", up to two clauses in one  *)
(* of the heading conventions, optionally a next main heading "N." and a    *)
(* clause of the following section.                                         *)

Plain(text) == add_run(text)

Bold(text) == [add_run(text) EXCEPT !.bold = "True"]

\* The runs of a clause paragraph with heading letter h in a convention
ClauseHeadingRuns(kind, h) ==
  CASE kind = "straight" -> <<Plain(<<DQ, h, DQ>>)>>
    [] kind = "straight_body" -> <<Plain(<<DQ, h, DQ, SP, "x">>)>>
    [] kind = "curly" -> <<Plain(<<LDQ, h, RDQ>>)>>
    [] kind = "curly_body" -> <<Plain(<<LDQ, h, RDQ, SP, "x">>)>>
    [] kind = "bold" -> <<Bold(<<h>>), Plain(<<SP, "x">>)>>
    [] kind = "bold_quoted" -> <<Plain(<<DQ>>), Bold(<<h>>), Plain(<<DQ, SP, "x">>)>>
    [] kind = "body" -> <<Plain(<<h, SP, "x">>)>>
    [] OTHER -> <<>>

ClauseKinds ==
  {"straight", "straight_body", "curly", "curly_body", "bold", "bold_quoted"}

NumPrOf(numbering) ==
  CASE numbering = "list" -> <<[numId |-> "3", ilvl |-> "1"]>>
    [] numbering = "no_level" -> <<[numId |-> "3", ilvl |-> "None"]>>
    [] OTHER -> <<>>

Numberings == {"none", "list", "no_level"}

MainHeading(letter, bold) ==
  <<IF bold THEN Bold(<<letter, DOT>>) ELSE Plain(<<letter, DOT>>)>>

\* Sequence of the run sequences and numberings of the paragraphs present
RECURSIVE Paragraphs(_, _)
Paragraphs(specs, n) ==
  IF specs = <<>> THEN <<>>
  ELSE IF Head(specs).runs = <<>> THEN Paragraphs(Tail(specs), n)
  ELSE <<[NewParagraph(n) EXCEPT !.runs = Head(specs).runs,
                                 !.numPr = Head(specs).numPr]>>
       \o Paragraphs(Tail(specs), n + 1)

Par(runs, numPr) == [runs |-> runs, numPr |-> numPr]

SectionDoc(k1, num1, k2, next, k3) ==
  Paragraphs(<<Par(MainHeading("D", FALSE), <<>>),
               Par(ClauseHeadingRuns(k1, "a"), NumPrOf(num1)),
               Par(ClauseHeadingRuns(k2, "b"), NumPrOf("list")),
               Par(IF next = "absent" THEN <<>>
                   ELSE MainHeading("N", next = "bold"), <<>>),
               Par(ClauseHeadingRuns(k3, "c"), <<>>)>>, 1)

SectionAnchors == { <<"D", DOT>>, <<"Z", DOT>> }

\* after_clause: <<>> paired with FALSE for the source's None
AfterClauses ==
  { [has |-> FALSE, text |-> <<>>], [has |-> TRUE, text |-> <<"a">>],
    [has |-> TRUE, text |-> <<"c">>] }

Definitions == { <<"y">>, <<>> }

InitSection ==
  /\ \E k1 \in ClauseKinds, num1 \in Numberings,
        k2 \in {"straight_body", "bold", "body", "absent"},
        next \in {"absent", "plain", "bold"}, k3 \in {"absent", "same"} :
       doc = SectionDoc(k1, num1, k2, next, IF k3 = "same" THEN k1 ELSE "absent")
  /\ prev = doc
  /\ last = NoCall
  /\ nextId = Len(doc) + 1
  /\ steps = 0

NextSection ==
  \E s \in SectionAnchors, h \in NewHeadings, b \in Definitions, a \in AfterClauses :
    insert_styled_numbered_clause_after_heading(s, h, b, a.has, a.text)

SpecSection == InitSection /\ [][NextSection]_vars

-----------------------------------------------------------------------------
(* Reading the outcome of insert_styled_numbered_clause_after_heading *)

NumberedCallOk == last.op = "numbered" /\ last.result = "ok"

NewIndex == IndexOfId(doc, last.newId)

\* The section of the call in the document before it: the heading index, the
\* clause headings the section had, the next main heading (0 when none)
PrevSection == IndexOfId(prev, last.anchorId)

PrevClauseHeadings ==
  SectionHeadings(prev, PrevSection, detect_clause_heading_style(prev, PrevSection))

PrevNextMain == find_next_main_heading_index(prev, PrevSection)

BeforeNextMain ==
  PrevNextMain # 0 => NewIndex < IndexOfId(doc, prev[PrevNextMain].id)

-----------------------------------------------------------------------------
(* C3: insert_styled_numbered_clause_after_heading without after_clause     *)
(* places the new paragraph as the first clause of the section: after the   *)
(* section heading, before every clause heading the section had and before  *)
(* the next main heading, in every heading convention (quotes only, curly   *)
(* or straight, with body text after the closing quote).                    *)
C3_FirstClauseOfSection ==
  (NumberedCallOk /\ ~last.has_after) =>
    /\ NewIndex > IndexOfId(doc, last.anchorId)
    /\ \A i \in PrevClauseHeadings : NewIndex < IndexOfId(doc, prev[i].id)
    /\ BeforeNextMain

-----------------------------------------------------------------------------
(* C5: with after_clause given, the new paragraph lies after the paragraph  *)
(* matched as after_clause and before the next main heading that follows    *)
(* the section heading, also when no clause heading follows after_clause    *)
(* and when the only match lies in a later section.                         *)
C5_AfterClauseInSection ==
  (NumberedCallOk /\ last.has_after) =>
    /\ NewIndex > IndexOfId(doc, last.afterId)
    /\ BeforeNextMain

-----------------------------------------------------------------------------
-----------------------------------------------------------------------------
(* C6: when the template paragraph belongs to a native numbered list, the   *)
(* paragraph inserted by insert_styled_numbered_clause_after_heading has    *)
(* the template's numbering-definition id and indent level, as              *)
(* get_numbering_props reads them; when the template has no numbering, the  *)
(* new paragraph has none.                                                  *)
C6_NumberingOfTemplate ==
  NumberedCallOk =>
    LET template == ParaOfId(doc, last.templateId)
        new == doc[NewIndex]
    IN /\ ~NumberingRaises(new)
       /\ get_numbering_props(new) = get_numbering_props(template)
       /\ template.numPr = <<>> => new.numPr = <<>>

C6_Witness ==
  /\ NumberedCallOk
  /\ get_numbering_props(ParaOfId(doc, last.templateId)) = [numId |-> "3", ilvl |-> "1"]
  /\ get_numbering_props(doc[NewIndex]) = [numId |-> "3", ilvl |-> "1"]
  /\ NewIndex + 1 = IndexOfId(doc, last.templateId)

-----------------------------------------------------------------------------
(* insert_sentence_in_clause *)

RECURSIVE ScanStartsWith(_, _, _)
ScanStartsWith(d, starts_with, i) ==
  IF i > Len(d) THEN 0
  ELSE IF StartsWith(Lower(Strip(ParaText(d[i]))), Lower(starts_with)) THEN i
  ELSE ScanStartsWith(d, starts_with, i + 1)

\* A search that falls back to the first paragraph instead of failing
FindSentenceTargetOrFirst(d, starts_with) == Max(1, ScanStartsWith(d, starts_with, 1))

\* The 1-based index of the first paragraph whose text starts with starts_with
FindSentenceTarget(d, starts_with) == ScanStartsWith(d, starts_with, 1)

\* The first 1-based position at or after i of a match of ([.!?])\s+ : a
\* sentence end followed by whitespace; 0 when there is none
RECURSIVE FindSentenceEnd(_, _)
FindSentenceEnd(text, i) ==
  IF i + 1 > Len(text) THEN 0
  ELSE IF text[i] \in SentenceEnd /\ IsSpace(text[i + 1]) THEN i
  ELSE FindSentenceEnd(text, i + 1)

\* A split on a pattern without its capture group: the end characters lost
RECURSIVE SplitDroppingEnds(_)
SplitDroppingEnds(text) ==
  LET p == FindSentenceEnd(text, 1)
  IN IF p = 0
     THEN IF Strip(text) # <<>> THEN <<Strip(text)>> ELSE <<>>
     ELSE <<SubSeq(text, 1, p - 1)>> \o SplitDroppingEnds(LStrip(From(text, p + 1)))

\* sentence_end_re.split(text) regrouped as lines 751-755 do: each piece with
\* its end character, the whitespace of the match dropped, then the rest when
\* it is not blank
RECURSIVE SplitSentences(_)
SplitSentences(text) ==
  LET p == FindSentenceEnd(text, 1)
  IN IF p = 0
     THEN IF Strip(text) # <<>> THEN <<Strip(text)>> ELSE <<>>
     ELSE <<SubSeq(text, 1, p)>> \o SplitSentences(LStrip(From(text, p + 1)))

\* list.insert(index, x): a negative index counts from the end and is
\* clamped to the front, an index past the end appends
ListInsert(list, index, x) ==
  LET n == Len(list)
      at == IF index < 0 THEN Max(0, n + index) ELSE Min(index, n)
  IN SubSeq(list, 1, at) \o <<x>> \o SubSeq(list, at + 1, n)

InsertSentence(sentences, sentence, index) ==
  IF index = -1 \/ index >= Len(sentences)
  THEN Append(sentences, Strip(sentence))
  ELSE ListInsert(sentences, index, Strip(sentence))

\* ' '.join(sentences)
RECURSIVE Join(_)
Join(sentences) ==
  IF sentences = <<>> THEN <<>>
  ELSE IF Len(sentences) = 1 THEN sentences[1]
  ELSE sentences[1] \o <<SP>> \o Join(Tail(sentences))

LowerLetters == {"a", "b", "c", "d", "h", "x", "y", "s", "z"}

\* str.isupper(): a cased character, and no lowercase one
IsUpperText(text) ==
  /\ \E i \in 1..Len(text) : text[i] \in Upper
  /\ \A i \in 1..Len(text) : text[i] \notin LowerLetters

WasAllCaps(para) ==
  \A i \in 1..Len(para.runs) :
    Strip(para.runs[i].text) # <<>> =>
      (para.runs[i].font.all_caps = "True" \/ IsUpperText(para.runs[i].text))

\* The target paragraph after the operation: every run emptied, one new run
\* with the joined text
RewriteParagraph(para, new_text) ==
  LET emptied == [i \in 1..Len(para.runs) |-> [para.runs[i] EXCEPT !.text = <<>>]]
      new_run == IF WasAllCaps(para)
                 THEN [add_run(new_text) EXCEPT !.font.all_caps = "True"]
                 ELSE add_run(new_text)
  IN [para EXCEPT !.runs = Append(emptied, new_run)]

insert_sentence_in_clause(starts_with, sentence, index) ==
  LET call == [NoCall EXCEPT !.op = "sentence", !.anchor = starts_with,
                             !.body = sentence, !.index = index]
  IN /\ steps < MaxOps
     /\ steps' = steps + 1
     /\ prev' = doc
     /\ UNCHANGED nextId
     /\ \E target \in {FindSentenceTarget(doc, starts_with)} :
          IF target = 0
          THEN /\ last' = [call EXCEPT !.result = "AnchorNotFound"]
               /\ UNCHANGED doc
          ELSE \E sentences \in
                 {InsertSentence(SplitSentences(Strip(ParaText(doc[target]))),
                                 sentence, index)} :
                 /\ doc' = [doc EXCEPT ![target] = RewriteParagraph(@, Join(sentences))]
                 /\ last' = [call EXCEPT !.anchorId = doc[target].id,
                                         !.sentences = sentences]

-----------------------------------------------------------------------------
(* Documents for the sentence operation: one paragraph of every text of up  *)
(* to MaxTextLen characters, in two runs cut at the middle; calls are made  *)
(* on texts of that length at most.                                         *)

SentenceChars == {"a", DOT, SP, TAB}

SentenceDoc(text) ==
  <<[NewParagraph(1) EXCEPT
       !.runs = <<add_run(SubSeq(text, 1, Len(text) \div 2)),
                  add_run(From(text, Len(text) \div 2 + 1))>>]>>

StartsWiths == { <<>>, <<"A">>, <<"z">> }

Sentences == { <<"s", DOT>>, <<SP, "s">> }

Indexes == {-4, -1, 0, 1, 2, 3}

InitSentence ==
  /\ \E t \in TextsUpTo(SentenceChars, MaxTextLen) : doc = SentenceDoc(t)
  /\ prev = doc
  /\ last = NoCall
  /\ nextId = Len(doc) + 1
  /\ steps = 0

NextSentence ==
  /\ Len(ParaText(doc[1])) <= MaxTextLen
  /\ \E w \in StartsWiths, s \in Sentences, i \in Indexes :
       insert_sentence_in_clause(w, s, i)

SpecSentence == InitSentence /\ [][NextSentence]_vars

SentenceCallOk == last.op = "sentence" /\ last.result = "ok"

\* The text of the target paragraph before and after the call
TargetBefore == ParaText(ParaOfId(prev, last.anchorId))
TargetAfter == ParaText(ParaOfId(doc, last.anchorId))

-----------------------------------------------------------------------------
(* C9: insert_sentence_in_clause on a paragraph that splits into sentences  *)
(* s_0..s_{n-1} produces a paragraph whose sentences are s_0..s_{n-1} in    *)
(* order with the new sentence added: at position index when                *)
(* 0 <= index < n, and as the last sentence when index = -1 or index is out *)
(* of range (index >= n, or index < -1).                                    *)
C9_SentenceAtIndex ==
  SentenceCallOk =>
    LET s == SplitSentences(Strip(TargetBefore))
        n == Len(s)
        new == Strip(last.body)
        expected == IF 0 <= last.index /\ last.index < n
                    THEN SubSeq(s, 1, last.index) \o <<new>>
                         \o SubSeq(s, last.index + 1, n)
                    ELSE Append(s, new)
    IN last.sentences = expected /\ TargetAfter = Join(expected)

-----------------------------------------------------------------------------
(* C10: append round trip: insert_sentence_in_clause with index equal to    *)
(* the number of sentences of the text T leaves the paragraph with T, a     *)
(* space and S, once runs of whitespace are collapsed and the ends trimmed: *)
(* no character of T other than whitespace is lost, duplicated or moved.    *)
RECURSIVE Collapse(_)
Collapse(text) ==
  LET t == LStrip(text)
  IN IF t = <<>> THEN <<>>
     ELSE IF IsSpace(Head(text)) THEN <<SP>> \o Collapse(t)
     ELSE <<Head(text)>> \o Collapse(Tail(text))

Normalized(text) == Collapse(Strip(text))

AppendCall ==
  /\ SentenceCallOk
  /\ last.index = Len(SplitSentences(Strip(TargetBefore)))

C10_AppendRoundTrip ==
  AppendCall =>
    Normalized(TargetAfter) = Normalized(TargetBefore \o <<SP>> \o last.body)

C10_Witness ==
  /\ AppendCall /\ last.index = 2
  /\ TargetBefore = <<"a", DOT, TAB, "a">>
  /\ TargetAfter = <<"a", DOT, SP, "a", SP, "s", DOT>>

-----------------------------------------------------------------------------
(* The four splice operations together, on documents of numbered clauses    *)
(* and on documents of sections.                                            *)

Init ==
  /\ \/ \E l1 \in {"single", "leading_space"},
           l2 \in {"single", "split_period", "split_number"} :
          doc = ClauseDoc(<<l1, l2>>, <<"A", "B">>, 1)
     \/ \E k1 \in {"straight", "bold"}, k3 \in {"absent", "same"} :
          doc = SectionDoc(k1, "list", "absent", "plain",
                           IF k3 = "same" THEN k1 ELSE "absent")
  /\ prev = doc
  /\ last = NoCall
  /\ nextId = Len(doc) + 1
  /\ steps = 0

Next ==
  \/ \E s \in SectionAnchors, h \in NewHeadings, b \in NewBodies, a \in AfterClauses :
       insert_styled_numbered_clause_after_heading(s, h, b, a.has, a.text)
  \/ \E a \in {<<"A", DOT>>, <<"z">>}, h \in NewHeadings, b \in NewBodies :
       insert_styled_clause_after_clause(a, h, b)
  \/ \E a \in {<<"A", DOT>>, <<"z">>}, h \in NewHeadings, b \in NewBodies :
       insert_styled_clause_before_clause(a, h, b)
  \/ \E w \in StartsWiths, i \in {-1, 0} :
       insert_sentence_in_clause(w, <<"s", DOT>>, i)

Spec == Init /\ [][Next]_vars

\* Whether the anchor of a call exists in document d, by the matching rule of
\* the operation called
ClauseAnchorIn(d, heading) ==
  \E i \in 1..Len(d) :
    normalize_heading(extract_clause_heading(ParaText(d[i]))) = normalize_heading(heading)

SentencePrefixIn(d, starts_with) ==
  \E i \in 1..Len(d) : StartsWith(Lower(Strip(ParaText(d[i]))), Lower(starts_with))

SectionHeadingIn(d, heading) ==
  \E i \in 1..Len(d) : normalize(ParaText(d[i])) = normalize(heading)

AfterClauseIn(d, heading, after_clause) ==
  LET index == find_clause_index_by_heading(d, heading)
      style_info == detect_clause_heading_style(d, index)
  IN \E i \in (index + 1)..Len(d) :
       /\ InlineIsHeading(d[i], Strip(ParaText(d[i])), style_info)
       /\ StartsWith(normalize(Strip(ParaText(d[i]))), normalize(after_clause))

AnchorLocated(d, call) ==
  CASE call.op \in {"after", "before"} -> ClauseAnchorIn(d, call.anchor)
    [] call.op = "sentence" -> SentencePrefixIn(d, call.anchor)
    [] call.op = "numbered" ->
         /\ SectionHeadingIn(d, call.anchor)
         /\ call.has_after => AfterClauseIn(d, call.anchor, call.after_clause)
    [] OTHER -> TRUE

SpliceOps == {"numbered", "after", "before", "sentence"}

-----------------------------------------------------------------------------
(* C2: for each of the four splice operations, when the named anchor        *)
(* (section heading, after_clause, clause heading or sentence prefix)       *)
(* cannot be located, the operation raises an error and the document is     *)
(* exactly as it was before the call.                                       *)
C2_AnchorFailureLeavesDocument ==
  last.op \in SpliceOps =>
    /\ ~AnchorLocated(prev, last) => last.result = "AnchorNotFound"
    /\ last.result = "AnchorNotFound" => doc = prev /\ ~AnchorLocated(prev, last)

C2_Witness ==
  /\ last.op = "numbered" /\ last.result = "AnchorNotFound"
  /\ SectionHeadingIn(prev, last.anchor)
  /\ last.has_after /\ ~AfterClauseIn(prev, last.anchor, last.after_clause)
  /\ steps = 2 /\ Len(doc) > 3 /\ doc = prev

-----------------------------------------------------------------------------
(* find_clause_index_by_heading as an operation: the heading looked up as   *)
(* given, in straight quotes and in curly quotes, on documents of up to two *)
(* heading-like paragraphs.                                                 *)

FindHeading(heading) ==
  /\ steps < MaxOps
  /\ steps' = steps + 1
  /\ prev' = doc
  /\ last' = [NoCall EXCEPT
                !.op = "find", !.heading = heading,
                !.found = <<find_clause_index_by_heading(doc, heading),
                            find_clause_index_by_heading(doc, <<DQ>> \o heading \o <<DQ>>),
                            find_clause_index_by_heading(doc, <<LDQ>> \o heading \o <<RDQ>>)>>]
  /\ UNCHANGED <<doc, nextId>>

HeadingTexts ==
  { <<"H">>, <<"h">>, <<DQ, "H", DQ>>, <<LDQ, "H", RDQ>>, <<SP, "H", TAB>>,
    <<DQ, SP, "H", DQ>>, <<DQ, "H", DQ, SP, "x">>, <<"z">>, <<>> }

HeadingQueries == { <<"H">>, <<SP, "H">>, <<"H", SP>>, <<"z">>, <<"b">> }

RECURSIVE TextDoc(_, _)
TextDoc(texts, n) ==
  IF texts = <<>> THEN <<>>
  ELSE <<[NewParagraph(n) EXCEPT !.runs = <<add_run(Head(texts))>>]>>
       \o TextDoc(Tail(texts), n + 1)

InitFind ==
  /\ \E t1 \in HeadingTexts, t2 \in HeadingTexts, two \in BOOLEAN :
       doc = TextDoc(IF two THEN <<t1, t2>> ELSE <<t1>>, 1)
  /\ prev = doc
  /\ last = NoCall
  /\ nextId = Len(doc) + 1
  /\ steps = 0

NextFind == \E h \in HeadingQueries : FindHeading(h)

SpecFind == InitFind /\ [][NextFind]_vars

\* A text trimmed, without the quote characters at its two ends, lowercased
Canonical(text) ==
  LET t == Strip(text)
      inner == { i \in 1..Len(t) : t[i] \notin QUOTES }
  IN IF inner = {} THEN <<>>
     ELSE Lower(SubSeq(t, CHOOSE i \in inner : \A j \in inner : i <= j,
                          CHOOSE i \in inner : \A j \in inner : i >= j))

\* index is the smallest index of d whose text is canonically the heading,
\* 0 when there is none
SmallestMatch(d, heading, index) ==
  LET matches == { i \in 1..Len(d) : Canonical(ParaText(d[i])) = Canonical(heading) }
  IN IF matches = {} THEN index = 0
     ELSE index \in matches /\ \A i \in matches : index <= i

-----------------------------------------------------------------------------
(* C11: find_clause_index_by_heading returns the smallest paragraph index   *)
(* whose text equals the heading after trimming whitespace, stripping quote *)
(* characters from both ends and lowercasing, and None when no paragraph    *)
(* matches; hence the calls with H unquoted, in straight quotes and in      *)
(* curly quotes return the same index on the same document.                 *)
C11_SameIndexInAnyQuotes ==
  last.op = "find" =>
    /\ SmallestMatch(doc, last.heading, last.found[1])
    /\ last.found[2] = last.found[1]
    /\ last.found[3] = last.found[1]

\* C11 as the code has it: whitespace is trimmed before the quotes are
\* stripped and not after, so the three calls agree when H has no whitespace
\* at its ends; each call returns the smallest index matching the text it
\* was given.
C11_SameIndexWhenTrimmed ==
  last.op = "find" =>
    /\ SmallestMatch(doc, last.heading, last.found[1])
    /\ SmallestMatch(doc, <<DQ>> \o last.heading \o <<DQ>>, last.found[2])
    /\ SmallestMatch(doc, <<LDQ>> \o last.heading \o <<RDQ>>, last.found[3])
    /\ Strip(last.heading) = last.heading =>
         last.found[2] = last.found[1] /\ last.found[3] = last.found[1]

C11_Witness ==
  /\ last.op = "find" /\ last.heading = <<"H">>
  /\ Texts(doc) = << <<"z">>, <<LDQ, "H", RDQ>> >>
  /\ last.found = <<2, 2, 2>>

-----------------------------------------------------------------------------
(* The two style inferences as operations, on sections of up to three       *)
(* paragraphs under the heading "D.", optionally followed by a next main    *)
(* heading "N." and a paragraph of the following section.  Clause headings  *)
(* carry the letter "a"; the other paragraphs do not.                       *)

detect_style_call(section_heading_index) ==
  /\ steps < MaxOps
  /\ steps' = steps + 1
  /\ prev' = doc
  /\ last' = [NoCall EXCEPT
                !.op = "detect_style", !.index = section_heading_index,
                !.style_info = detect_clause_heading_style(doc, section_heading_index)]
  /\ UNCHANGED <<doc, nextId>>

section_style_call(section_heading_index) ==
  /\ steps < MaxOps
  /\ steps' = steps + 1
  /\ prev' = doc
  /\ \E style_info \in {detect_clause_heading_style(doc, section_heading_index)} :
       last' = [NoCall EXCEPT
                  !.op = "section_style", !.index = section_heading_index,
                  !.style_info = style_info,
                  !.section_style =
                     section_clause_headings_style(doc, section_heading_index, style_info)]
  /\ UNCHANGED <<doc, nextId>>

Styled(text, bold, italic, underline) ==
  [add_run(text) EXCEPT !.bold = bold, !.italic = italic, !.underline = underline]

LongText == [i \in 1..HeadingMaxLen |-> "x"]

\* The runs and the paragraph style of a paragraph of each kind
StyleKindRuns(kind) ==
  CASE kind = "blank" -> <<Plain(<<SP>>)>>
    [] kind = "underlined" -> <<Styled(<<"u">>, "None", "None", "True")>>
    [] kind = "body" -> <<Plain(<<"b", SP, "x">>)>>
    [] kind = "long_bold" -> <<Bold(LongText)>>
    [] kind = "bold_straight" -> <<Plain(<<DQ>>), Bold(<<"a">>), Plain(<<DQ, SP, "x">>)>>
    [] kind = "bold_curly" -> <<Plain(<<LDQ>>), Bold(<<"a">>), Plain(<<RDQ>>)>>
    [] kind = "quoted_italic" -> <<Styled(<<DQ, "a", DQ>>, "None", "True", "None")>>
    [] kind = "quoted_not_italic" -> <<Styled(<<DQ, "a", DQ>>, "False", "False", "None")>>
    [] kind = "quoted_emphasis" -> <<Plain(<<LDQ, "a", RDQ, SP, "x">>)>>
    [] kind = "bold_underlined" -> <<Styled(<<"a">>, "True", "None", "True"), Plain(<<SP, "x">>)>>
    [] OTHER -> <<>>

StyleKinds ==
  {"blank", "underlined", "body", "long_bold", "bold_straight", "bold_curly",
   "quoted_italic", "quoted_not_italic", "quoted_emphasis", "bold_underlined"}

RECURSIVE StyleParagraphs(_, _)
StyleParagraphs(kinds, n) ==
  IF kinds = <<>> THEN <<>>
  ELSE <<[NewParagraph(n) EXCEPT
            !.runs = StyleKindRuns(Head(kinds)),
            !.style = IF Head(kinds) = "quoted_emphasis" THEN "Quote" ELSE "Normal"]>>
       \o StyleParagraphs(Tail(kinds), n + 1)

StyleDoc(kinds, next) ==
  LET section == <<[NewParagraph(1) EXCEPT !.runs = MainHeading("D", FALSE)]>>
                 \o StyleParagraphs(kinds, 2)
      n == Len(section)
  IN IF next = "absent" THEN section
     ELSE section \o <<[NewParagraph(n + 1) EXCEPT !.runs = MainHeading("N", FALSE)]>>
                  \o StyleParagraphs(<<next>>, n + 2)

MaxSectionLen == 3

InitStyle ==
  /\ \E n \in 0..MaxSectionLen : \E kinds \in [1..n -> StyleKinds] :
       \E next \in {"absent", "bold_underlined"} : doc = StyleDoc(kinds, next)
  /\ prev = doc
  /\ last = NoCall
  /\ nextId = Len(doc) + 1
  /\ steps = 0

NextStyle ==
  \/ \E i \in {0, 1} : detect_style_call(i)
  \/ section_style_call(1)

SpecStyle == InitStyle /\ [][NextStyle]_vars

\* The section of index in d: the paragraphs strictly between the section
\* heading and the next main heading (the end of the document when none)
SectionScope(d, index) ==
  LET mains == { j \in (index + 1)..Len(d) : is_main_heading(d[j]) }
  IN { i \in (index + 1)..Len(d) : \A j \in mains : i < j }

\* The clause heading paragraphs of the documents above
IsClauseHeadingParagraph(para) == Contains(ParaText(para), "a")

QuoteWrapped(para) ==
  LET text == Strip(ParaText(para))
  IN \/ Head(text) = DQ /\ Contains(Tail(text), DQ)
     \/ Head(text) = LDQ /\ Contains(Tail(text), RDQ)

-----------------------------------------------------------------------------
(* C12: for every section in which each clause heading paragraph has a bold *)
(* run and is quote-wrapped (straight or curly), section_clause_headings_   *)
(* style returns use_bold and use_quotes true, whatever other non-heading   *)
(* paragraphs (a short underlined-only or blank paragraph before the first  *)
(* clause, for example) the section contains.                               *)
C12_BoldQuotedSection ==
  LET headings == { i \in SectionScope(doc, last.index) :
                      IsClauseHeadingParagraph(doc[i]) }
  IN (/\ last.op = "section_style"
      /\ headings # {}
      /\ \A i \in headings : AnyBold(doc[i]) /\ QuoteWrapped(doc[i]))
     => last.section_style.use_bold /\ last.section_style.use_quotes

-----------------------------------------------------------------------------
(* C15: in section_clause_headings_style, when at least one paragraph of    *)
(* the section is classified as a clause heading, each of use_quotes,       *)
(* use_bold, use_italic, use_underline is true if and only if the number of *)
(* classified headings with that feature is strictly greater than half of   *)
(* the total; an exact tie gives false.                                     *)
Classified ==
  { i \in SectionScope(doc, last.index) : is_clause_heading(doc[i], last.style_info) }

MoreThanHalf(with) == 2 * Cardinality(with) > Cardinality(Classified)

C15_MajorityVote ==
  (last.op = "section_style" /\ Classified # {}) =>
    /\ last.section_style.use_quotes
         <=> MoreThanHalf({ i \in Classified : has_quotes(ParaText(doc[i])) })
    /\ last.section_style.use_bold <=> MoreThanHalf({ i \in Classified : AnyBold(doc[i]) })
    /\ last.section_style.use_italic <=> MoreThanHalf({ i \in Classified : HasItalic(doc[i]) })
    /\ last.section_style.use_underline
         <=> MoreThanHalf({ i \in Classified : AnyUnderline(doc[i]) })

\* Two classified headings, both quoted, one of them bold: a tie on bold
C15_Witness ==
  /\ last.op = "section_style" /\ Cardinality(Classified) = 2
  /\ Cardinality({ i \in Classified : AnyBold(doc[i]) }) = 1
  /\ Cardinality({ i \in Classified : has_quotes(ParaText(doc[i])) }) = 2
  /\ ~last.section_style.use_bold /\ last.section_style.use_quotes

-----------------------------------------------------------------------------
(* C18: detect_clause_heading_style returns the (bold, underline, quotes)   *)
(* flags of the first paragraph in scope that is non-blank, shorter than 60 *)
(* characters, has a run and has one of the three flags true; when none     *)
(* qualifies it returns bold only.  The profile never has all three flags   *)
(* false, and with a section index the scope is the paragraphs strictly     *)
(* between the section heading and the next main heading.                   *)
StyleScope ==
  IF last.index = 0 THEN 1..Len(doc) ELSE SectionScope(doc, last.index)

FlagsOf(para) ==
  [bold |-> AnyBold(para), underline |-> AnyUnderline(para),
   quotes |-> has_quotes(ParaText(para))]

Qualifying ==
  { i \in StyleScope :
      /\ Strip(ParaText(doc[i])) # <<>>
      /\ Len(Strip(ParaText(doc[i]))) < 60
      /\ doc[i].runs # <<>>
      /\ AnyBold(doc[i]) \/ AnyUnderline(doc[i]) \/ has_quotes(ParaText(doc[i])) }

C18_FirstStyledParagraph ==
  last.op = "detect_style" =>
    /\ last.style_info.bold \/ last.style_info.underline \/ last.style_info.quotes
    /\ IF Qualifying = {}
       THEN last.style_info = [bold |-> TRUE, underline |-> FALSE, quotes |-> FALSE]
       ELSE \E i \in Qualifying :
              /\ \A j \in Qualifying : i <= j
              /\ last.style_info = FlagsOf(doc[i])

\* A long bold paragraph and a blank one are passed over, the underlined
\* paragraph decides, and the paragraph behind the next main heading is out
\* of scope
C18_Witness ==
  /\ last.op = "detect_style" /\ last.index = 1
  /\ Len(doc) = 6
  /\ Len(ParaText(doc[2])) = 60 /\ AnyBold(doc[2])
  /\ Strip(ParaText(doc[3])) = <<>>
  /\ last.style_info = [bold |-> FALSE, underline |-> TRUE, quotes |-> FALSE]
  /\ last.style_info = FlagsOf(doc[4])

-----------------------------------------------------------------------------
(* C13: once the anchor of insert_styled_numbered_clause_after_heading has  *)
(* been located, the operation completes without raising for every          *)
(* document: a template without numbering, with a numbering id but no       *)
(* indent level, without quotes, or no clause heading after the insertion   *)
(* point is handled by a default, and the operation never aborts after a    *)
(* paragraph has been inserted.                                             *)
C13_CompletesOnceAnchored ==
  (last.op = "numbered" /\ last.result # "AnchorNotFound") =>
    /\ last.result = "ok"
    /\ Len(doc) = Len(prev) + 1

-----------------------------------------------------------------------------
(* C14: for every paragraph that renumber_clauses_preserve_formatting       *)
(* treats as a numbered clause, the text after the call is "<n>. " followed *)
(* by exactly the original text after the matched prefix, n being the       *)
(* paragraph's rank among the qualifying paragraphs, whether the prefix     *)
(* lies in one run or straddles two; at most one run has its text changed.  *)
ChangedRuns(before, after) ==
  { j \in 1..Len(before.runs) : after.runs[j] # before.runs[j] }

C14_PrefixReplacedExactly ==
  last.op = "renumber" =>
    \A i \in 1..Len(prev) :
      IsNumberedClause(prev[i]) =>
        LET text == Strip(ParaText(prev[i]))
            rest == From(text, clause_heading_pattern(text) + 1)
            n == Cardinality({ j \in 1..i : IsNumberedClause(prev[j]) })
        IN /\ ParaText(doc[i]) = ToStr(n) \o <<DOT, SP>> \o rest
           /\ Len(doc[i].runs) = Len(prev[i].runs)
           /\ Cardinality(ChangedRuns(prev[i], doc[i])) <= 1

-----------------------------------------------------------------------------
(* C16: in every paragraph produced by                                      *)
(* insert_styled_numbered_clause_after_heading the heading run is either    *)
(* between one open-quote run and one close-quote run of the same pair,     *)
(* both without bold, italic or underline, or there is no quote run at all; *)
(* the body run follows and is a single space and the body.                 *)
Unstyled(run) == run.bold = "None" /\ run.italic = "None" /\ run.underline = "None"

NumberedInserted == last.op = "numbered" /\ last.result # "AnchorNotFound"

C16_QuotesInPairs ==
  NumberedInserted =>
    LET runs == doc[NewIndex].runs
    IN \/ /\ Len(runs) = 4
          /\ <<runs[1].text, runs[3].text>> \in
               { << <<DQ>>, <<DQ>> >>, << <<LDQ>>, <<RDQ>> >> }
          /\ Unstyled(runs[1]) /\ Unstyled(runs[3])
          /\ runs[2].text = last.heading
          /\ runs[4].text = <<SP>> \o last.body
       \/ /\ Len(runs) = 2
          /\ runs[1].text = last.heading
          /\ runs[2].text = <<SP>> \o last.body

C16_Witness ==
  /\ NumberedInserted /\ last.body = <<"y">>
  /\ Len(doc[NewIndex].runs) = 4
  /\ doc[NewIndex].runs[1].text = <<LDQ>> /\ doc[NewIndex].runs[3].text = <<RDQ>>
  /\ doc[NewIndex].runs[2].bold = "True"

-----------------------------------------------------------------------------
(* C17: the paragraph inserted by insert_styled_clause_before_clause is a   *)
(* numbered clause: for every target paragraph, also one without a leading  *)
(* number whose text contains ". ", the new paragraph's text after the      *)
(* operation is "<n>. <new heading>. <body>" with n a decimal number, it    *)
(* lies immediately before the target paragraph, and the target, if         *)
(* numbered, carries n+1.                                                   *)
C17_InsertedBeforeIsNumbered ==
  (last.op = "before" /\ last.result = "ok") =>
    LET new == ParaText(doc[NewIndex])
        target == ParaText(ParaOfId(doc, last.anchorId))
        n == LeadingNumber(new)
    IN /\ BeginsNumbered(new) /\ n >= 1
       /\ new = ToStr(n) \o <<DOT, SP>> \o last.heading \o <<DOT, SP>> \o last.body
       /\ NewIndex + 1 = IndexOfId(doc, last.anchorId)
       /\ BeginsNumbered(target) => LeadingNumber(target) = n + 1

-----------------------------------------------------------------------------
(* C19: frame of the splice operations: every paragraph that existed before *)
(* an operation still exists and the old paragraphs keep their relative     *)
(* order; insert_styled_numbered_clause_after_heading adds exactly one      *)
(* paragraph and changes the text of no other; the two clause insertions    *)
(* add exactly two paragraphs (one blank, one clause) and change old        *)
(* paragraphs only in their leading number prefix; insert_sentence_in_      *)
(* clause adds no paragraph and changes only the first paragraph whose      *)
(* trimmed text starts with starts_with, case-insensitively.                *)
Survives(i) == IndexOfId(doc, prev[i].id) # 0

NowOf(i) == ParaOfId(doc, prev[i].id)

\* The text behind the leading number prefix ^(\d+|XXX)\.\s+
BehindPrefix(text) == From(text, clause_heading_pattern(text) + 1)

SameBehindPrefix(old, new) ==
  \/ new = old
  \/ /\ clause_heading_pattern(old) > 0 /\ clause_heading_pattern(new) > 0
     /\ BehindPrefix(new) = BehindPrefix(old)

FirstWithPrefix(i) ==
  /\ StartsWith(Lower(Strip(ParaText(prev[i]))), Lower(last.anchor))
  /\ \A j \in 1..(i - 1) :
       ~StartsWith(Lower(Strip(ParaText(prev[j]))), Lower(last.anchor))

C19_Frame ==
  (last.op \in SpliceOps /\ last.result = "ok") =>
    /\ \A i \in 1..Len(prev) : Survives(i)
    /\ \A i, j \in 1..Len(prev) :
         i < j => IndexOfId(doc, prev[i].id) < IndexOfId(doc, prev[j].id)
    /\ last.op = "numbered" =>
         /\ Len(doc) = Len(prev) + 1
         /\ \A i \in 1..Len(prev) : ParaText(NowOf(i)) = ParaText(prev[i])
    /\ last.op \in {"after", "before"} =>
         /\ Len(doc) = Len(prev) + 2
         /\ ParaText(ParaOfId(doc, last.blankId)) = <<>>
         /\ ParaText(ParaOfId(doc, last.newId)) # <<>>
         /\ \A i \in 1..Len(prev) :
              SameBehindPrefix(ParaText(prev[i]), ParaText(NowOf(i)))
    /\ last.op = "sentence" =>
         /\ Len(doc) = Len(prev)
         /\ \A i \in 1..Len(prev) : ~FirstWithPrefix(i) => doc[i] = prev[i]

====
